---------------------------- MODULE Spec2Model ----------------------------
(***************************************************************************)
(* A model of the KV-SSD emulator (src/src): Flash, the GMD with its       *)
(* translation pages, the CMT read cache, the garbage collector and the    *)
(* KVSSD put/get/delete pipelines, under the baseline inlining policy.     *)
(*                                                                         *)
(* The device state is carried as one record `ssd` through operators that  *)
(* follow the methods of the source one to one.  A Python exception        *)
(* (RuntimeError "flash full") is the field `err`: once set, the rest of   *)
(* the running operation is skipped and the state is left as the raise     *)
(* left it, exactly as the unwinding does in the source.                   *)
(***************************************************************************)
EXTENDS Integers, Sequences, FiniteSets, TLC

(***************************************************************************)
(* Configuration (src/src/config.py), scaled down.                         *)
(***************************************************************************)
NumKeys == 2
TotalBlocks == 2
PagesPerBlock == 4
NumTps == 2
FramesPerTp == 2
EntrySize == 16
PpaSize == 8
MaxRetry == 8
KeySize == 1
GcThresholdPct == 85
GcDefaultRounds == 10
\* the number of operations a run issues
MaxOps == 7
\* the number of writes and erases a run issues on Flash directly
MaxFlashOps == 3

TotalPages == TotalBlocks * PagesPerBlock
Pages == 0 .. (TotalPages - 1)
Blocks == 0 .. (TotalBlocks - 1)
TpIds == 0 .. (NumTps - 1)
\* key hashes: every key has the same first probe slot
Keys == {k * NumTps : k \in 0 .. (NumKeys - 1)}
\* read-cache capacities a device is built with (CMT.read_capacity)
ReadCapacities == {1, 2}
\* value sizes offered to put: one frame inline, two frames inline, regular
ValueSizes == {EntrySize - 12 - KeySize, EntrySize - 12 - KeySize + 1, PpaSize + 1}

NoPage == -1
NoTp == [present |-> FALSE, entries |-> <<>>, used_frames |-> 0,
         num_inline |-> 0, flash_page_id |-> NoPage]
NoEntry == [key_hash |-> -1, key_size |-> 0, value_size |-> 0, is_inline |-> FALSE,
            data_page_id |-> NoPage, frames_used |-> 0]

VARIABLES ssd, seq

vars == <<ssd, seq>>

(***************************************************************************)
(* Metrics (src/src/metrics.py): the counters, the per-request scratch     *)
(* counter and the histogram of flash reads per GET.                       *)
(***************************************************************************)
InitMetrics ==
    [tp_reads |-> 0, data_reads |-> 0, flash_writes |-> 0, flash_erases |-> 0,
     cmt_hits |-> 0, cmt_misses |-> 0,
     total_puts |-> 0, total_gets |-> 0, total_deletes |-> 0,
     inline_entries |-> 0, regular_entries |-> 0, inline_to_regular |-> 0,
     gc_invocations |-> 0, gc_pages_copied |-> 0, host_writes |-> 0,
     request_flash_reads |-> 0,
     reads_by_flash_count |-> [c \in 0 .. 2 |-> 0]]

total_ops(m) == m.total_puts + m.total_gets + m.total_deletes

\* counter f of the metrics changed by d
Add(S, f, d) == [S EXCEPT !.m = [@ EXCEPT ![f] = @ + d]]

\* begin_request that keeps the reads counted since the last request
begin_request_keeps(S) == S

begin_request(S) == [S EXCEPT !.m = [@ EXCEPT !.request_flash_reads = 0]]

record_flash_read(S, ptype) ==
    Add(Add(S, "request_flash_reads", 1),
        IF ptype = "translation" THEN "tp_reads" ELSE "data_reads", 1)

\* end_get_request that records no sample
end_get_request_dropped(S) == S

end_get_request(S) ==
    LET count == S.m.request_flash_reads IN
    [S EXCEPT !.m = [@ EXCEPT !.reads_by_flash_count =
        IF count \in DOMAIN @
        THEN [@ EXCEPT ![count] = @ + 1]
        ELSE [c \in DOMAIN @ \cup {count} |-> IF c = count THEN 1 ELSE @[c]]]]

(***************************************************************************)
(* Flash (src/src/flash.py)                                                *)
(***************************************************************************)
BlockPages(b) == (b * PagesPerBlock) .. (b * PagesPerBlock + PagesPerBlock - 1)

get_block_id(p) == p \div PagesPerBlock

read_page(S, pid, ptype) == record_flash_read(S, ptype)

\* write_page that does not count the write
write_page_uncounted(S, pid, ptype) ==
    [S EXCEPT !.occupied = @ \cup {pid},
              !.valid = @ \cup {pid},
              !.page_types = [@ EXCEPT ![pid] = ptype]]

write_page(S, pid, ptype) ==
    [Add(S, "flash_writes", 1) EXCEPT
              !.occupied = @ \cup {pid},
              !.valid = @ \cup {pid},
              !.page_types = [@ EXCEPT ![pid] = ptype]]

free_page(S, pid) == [S EXCEPT !.valid = @ \ {pid}]

\* erase_block that forgets to clear the valid marks
erase_block_keeps_valid(S, b) ==
    [Add(S, "flash_erases", 1) EXCEPT
              !.occupied = @ \ BlockPages(b),
              !.page_types = [p \in DOMAIN @ |-> IF p \in BlockPages(b) THEN "none" ELSE @[p]]]

erase_block(S, b) ==
    [Add(S, "flash_erases", 1) EXCEPT
              !.occupied = @ \ BlockPages(b),
              !.valid = @ \ BlockPages(b),
              !.page_types = [p \in DOMAIN @ |-> IF p \in BlockPages(b) THEN "none" ELSE @[p]]]

\* an allocator that hands out the page under the cursor without scanning
FirstFreeFrom_cursor(occ, start) == start

\* the first page at or after the cursor, cyclically, that is not occupied
FirstFreeFrom(occ, start) ==
    LET d == CHOOSE i \in 0 .. (TotalPages - 1) :
                 /\ ((start + i) % TotalPages) \notin occ
                 /\ \A j \in 0 .. (i - 1) : ((start + j) % TotalPages) \in occ
    IN (start + d) % TotalPages

\* allocate_page: [S, pid]; raises (err) when every page is occupied
allocate_page(S) ==
    IF Pages \subseteq S.occupied
    THEN [S |-> [S EXCEPT !.err = TRUE], pid |-> NoPage]
    ELSE LET p == FirstFreeFrom(S.occupied, S.next_page)
         IN [S |-> [S EXCEPT !.next_page = (p + 1) % TotalPages], pid |-> p]

\* valid pages of a block in ascending page order, as a sequence of page ids
RECURSIVE SortedSeq(_)
SortedSeq(ps) ==
    IF ps = {} THEN <<>>
    ELSE LET m == CHOOSE x \in ps : \A y \in ps : x <= y
         IN <<m>> \o SortedSeq(ps \ {m})

valid_pages_in_block(S, b) == SortedSeq(BlockPages(b) \cap S.valid)

invalid_count_in_block(S, b) ==
    Cardinality({p \in BlockPages(b) : p \in S.occupied /\ p \notin S.valid})

\* utilization >= threshold, in integer arithmetic
should_run(S) == Cardinality(S.occupied) * 100 >= GcThresholdPct * TotalPages

(***************************************************************************)
(* TranslationPage (src/src/mapping.py).  `entries` is the dict in         *)
(* insertion order: a removed and re-inserted key goes to the end.         *)
(***************************************************************************)
MappingEntry(kh, ks, vs, inl, dp, fr) ==
    [key_hash |-> kh, key_size |-> ks, value_size |-> vs, is_inline |-> inl,
     data_page_id |-> dp, frames_used |-> fr]

NewTp(fp) == [present |-> TRUE, entries |-> <<>>, used_frames |-> 0,
              num_inline |-> 0, flash_page_id |-> fp]

\* index of the entry of key_hash kh in an entry sequence, 0 when absent
IndexOf(es, kh) ==
    IF \E i \in 1 .. Len(es) : es[i].key_hash = kh
    THEN CHOOSE i \in 1 .. Len(es) : es[i].key_hash = kh /\ \A j \in 1 .. (i - 1) : es[j].key_hash # kh
    ELSE 0

RemoveAt(es, i) == SubSeq(es, 1, i - 1) \o SubSeq(es, i + 1, Len(es))

tp_find(tp, kh) == IF IndexOf(tp.entries, kh) = 0 THEN NoEntry ELSE tp.entries[IndexOf(tp.entries, kh)]

has_space(tp, frames_needed) == FramesPerTp - tp.used_frames >= frames_needed

\* remove that does not give the frames back
tp_remove_keeps_frames(tp, kh) ==
    LET i == IndexOf(tp.entries, kh) IN
    IF i = 0 THEN tp
    ELSE [tp EXCEPT !.entries = RemoveAt(@, i),
                    !.num_inline = IF tp.entries[i].is_inline THEN @ - 1 ELSE @]

tp_remove(tp, kh) ==
    LET i == IndexOf(tp.entries, kh) IN
    IF i = 0 THEN tp
    ELSE [tp EXCEPT !.entries = RemoveAt(@, i),
                    !.used_frames = @ - tp.entries[i].frames_used,
                    !.num_inline = IF tp.entries[i].is_inline THEN @ - 1 ELSE @]

\* insert that does not count an inline entry
tp_insert_uncounted(tp, e) ==
    LET t1 == IF IndexOf(tp.entries, e.key_hash) # 0 THEN tp_remove(tp, e.key_hash) ELSE tp
    IN [t1 EXCEPT !.entries = Append(@, e),
                  !.used_frames = @ + e.frames_used]

tp_insert(tp, e) ==
    LET t1 == IF IndexOf(tp.entries, e.key_hash) # 0 THEN tp_remove(tp, e.key_hash) ELSE tp
    IN [t1 EXCEPT !.entries = Append(@, e),
                  !.used_frames = @ + e.frames_used,
                  !.num_inline = IF e.is_inline THEN @ + 1 ELSE @]

\* the first inline entry in insertion order, NoEntry when there is none
FirstInline(tp) ==
    IF \E i \in 1 .. Len(tp.entries) : tp.entries[i].is_inline
    THEN tp.entries[CHOOSE i \in 1 .. Len(tp.entries) :
                        /\ tp.entries[i].is_inline
                        /\ \A j \in 1 .. (i - 1) : ~tp.entries[j].is_inline]
    ELSE NoEntry

\* evict_one_inline: [tp, evicted]
evict_one_inline(tp) ==
    LET e == FirstInline(tp) IN
    IF e = NoEntry THEN [tp |-> tp, evicted |-> NoEntry]
    ELSE [tp |-> tp_remove(tp, e.key_hash), evicted |-> e]

(***************************************************************************)
(* GMD (src/src/mapping.py).  `pages` maps tp_id to its page (NoTp while   *)
(* not materialized); `order` lists the materialized ids in creation order *)
(* (the iteration order of the _pages dict).                               *)
(***************************************************************************)
get_tp_id(kh, retry) == (kh + retry * retry) % NumTps

get_or_create_tp(S, tp_id) ==
    LET create(a) ==
            IF a.S.err THEN a.S
            ELSE [a.S EXCEPT !.pages = [@ EXCEPT ![tp_id] = NewTp(a.pid)],
                             !.order = Append(@, tp_id)]
    IN IF S.pages[tp_id].present THEN S ELSE create(allocate_page(S))

\* find_entry from probe index retry on: [tp, entry], tp = -1 for (None, None)
RECURSIVE find_entry_from(_, _, _)
find_entry_from(S, kh, retry) ==
    IF retry >= MaxRetry THEN [tp |-> -1, entry |-> NoEntry]
    ELSE LET tp_id == get_tp_id(kh, retry) IN
         IF ~S.pages[tp_id].present THEN [tp |-> -1, entry |-> NoEntry]
         ELSE IF tp_find(S.pages[tp_id], kh) # NoEntry
              THEN [tp |-> tp_id, entry |-> tp_find(S.pages[tp_id], kh)]
              ELSE find_entry_from(S, kh, retry + 1)

\* find_entry that looks at the first probe slot only
find_entry_first_slot(S, kh) ==
    LET tp_id == get_tp_id(kh, 0) IN
    IF S.pages[tp_id].present /\ tp_find(S.pages[tp_id], kh) # NoEntry
    THEN [tp |-> tp_id, entry |-> tp_find(S.pages[tp_id], kh)]
    ELSE [tp |-> -1, entry |-> NoEntry]

find_entry(S, kh) == find_entry_from(S, kh, 0)

\* find_tp_for_insert from probe index retry on: [S, tp], tp = -1 for None
RECURSIVE find_tp_for_insert_from(_, _, _, _)
find_tp_for_insert_from(S, kh, frames_needed, retry) ==
    LET probe(S1, tp_id) ==
            IF S1.err THEN [S |-> S1, tp |-> -1]
            ELSE IF tp_find(S1.pages[tp_id], kh) # NoEntry THEN [S |-> S1, tp |-> tp_id]
            ELSE IF has_space(S1.pages[tp_id], frames_needed) THEN [S |-> S1, tp |-> tp_id]
            ELSE find_tp_for_insert_from(S1, kh, frames_needed, retry + 1)
    IN IF retry >= MaxRetry THEN [S |-> S, tp |-> -1]
       ELSE probe(get_or_create_tp(S, get_tp_id(kh, retry)), get_tp_id(kh, retry))

\* a search for room that starts at the second probe slot
find_tp_for_insert_skip_first(S, kh, frames_needed) ==
    find_tp_for_insert_from(S, kh, frames_needed, 1)

find_tp_for_insert(S, kh, frames_needed) == find_tp_for_insert_from(S, kh, frames_needed, 0)

\* max(1, ceil(total_size / entry_size))
compute_frames(total_size) ==
    LET c == (total_size + EntrySize - 1) \div EntrySize IN IF c < 1 THEN 1 ELSE c

(***************************************************************************)
(* CMT read cache (src/src/cmt.py): `cache` is the OrderedDict as a        *)
(* sequence of entries, least recently used first.                         *)
(***************************************************************************)
\* a lookup whose hit leaves the order alone
cmt_lookup_in_place(S, kh) ==
    IF IndexOf(S.cache, kh) = 0 THEN [S |-> S, entry |-> NoEntry]
    ELSE [S |-> S, entry |-> S.cache[IndexOf(S.cache, kh)]]

\* lookup: [S, entry]; a hit moves the key to the end
cmt_lookup(S, kh) ==
    LET i == IndexOf(S.cache, kh) IN
    IF i = 0 THEN [S |-> S, entry |-> NoEntry]
    ELSE [S |-> [S EXCEPT !.cache = Append(RemoveAt(@, i), S.cache[i])], entry |-> S.cache[i]]

\* an eviction loop that stops one entry late
RECURSIVE EvictToCapacity_late(_, _)
EvictToCapacity_late(c, read_capacity) ==
    IF Len(c) > read_capacity THEN EvictToCapacity_late(Tail(c), read_capacity) ELSE c

\* while len(cache) >= read_capacity: popitem(last=False)
RECURSIVE EvictToCapacity(_, _)
EvictToCapacity(c, read_capacity) ==
    IF Len(c) >= read_capacity THEN EvictToCapacity(Tail(c), read_capacity) ELSE c

\* the cache after the eviction loop, with e stored under kh at the recent end
Stored(c1, kh, e) ==
    IF IndexOf(c1, kh) = 0 THEN Append(c1, e) ELSE [c1 EXCEPT ![IndexOf(c1, kh)] = e]

\* insert with every entry cached, inline or not
cmt_insert_any(S, kh, e, cache_inline) ==
    [S EXCEPT !.cache = Stored(EvictToCapacity(S.cache, S.read_capacity), kh, e)]

cmt_insert(S, kh, e, cache_inline) ==
    IF e.is_inline /\ ~cache_inline THEN S
    ELSE [S EXCEPT !.cache = Stored(EvictToCapacity(S.cache, S.read_capacity), kh, e)]

cmt_invalidate(S, kh) ==
    LET i == IndexOf(S.cache, kh) IN
    IF i = 0 THEN S ELSE [S EXCEPT !.cache = RemoveAt(@, i)]

\* an update that does not look at is_inline
update_data_page_any(S, old, new) ==
    [S EXCEPT !.cache = [i \in 1 .. Len(S.cache) |->
        IF S.cache[i].data_page_id = old
        THEN [S.cache[i] EXCEPT !.data_page_id = new] ELSE S.cache[i]]]

update_data_page(S, old, new) ==
    [S EXCEPT !.cache = [i \in 1 .. Len(S.cache) |->
        IF ~S.cache[i].is_inline /\ S.cache[i].data_page_id = old
        THEN [S.cache[i] EXCEPT !.data_page_id = new] ELSE S.cache[i]]]

(***************************************************************************)
(* Relocator callbacks (src/src/kvssd.py)                                  *)
(***************************************************************************)
relocate_data_page(S, old, new) ==
    LET S1 == [S EXCEPT !.pages = [t \in TpIds |->
                 [S.pages[t] EXCEPT !.entries = [i \in 1 .. Len(S.pages[t].entries) |->
                     IF ~S.pages[t].entries[i].is_inline /\ S.pages[t].entries[i].data_page_id = old
                     THEN [S.pages[t].entries[i] EXCEPT !.data_page_id = new]
                     ELSE S.pages[t].entries[i]]]]]
    IN update_data_page(S1, old, new)

\* the first materialized page, in creation order, bound to the old flash page
relocate_tp_page(S, old, new) ==
    IF \E i \in 1 .. Len(S.order) : S.pages[S.order[i]].flash_page_id = old
    THEN LET i == CHOOSE i \in 1 .. Len(S.order) :
                      /\ S.pages[S.order[i]].flash_page_id = old
                      /\ \A j \in 1 .. (i - 1) : S.pages[S.order[j]].flash_page_id # old
         IN [S EXCEPT !.pages = [@ EXCEPT ![S.order[i]] = [@ EXCEPT !.flash_page_id = new]]]
    ELSE S

(***************************************************************************)
(* GarbageCollector (src/src/gc.py)                                        *)
(***************************************************************************)
\* a victim loop that lets a later block win a tie
RECURSIVE select_victim_last_tie(_, _, _, _)
select_victim_last_tie(S, block_id, best_block, best_invalid) ==
    IF block_id >= TotalBlocks THEN best_block
    ELSE IF invalid_count_in_block(S, block_id) >= best_invalid
              /\ invalid_count_in_block(S, block_id) > 0
         THEN select_victim_last_tie(S, block_id + 1, block_id,
                                     invalid_count_in_block(S, block_id))
         ELSE select_victim_last_tie(S, block_id + 1, best_block, best_invalid)

\* the loop of _select_victim from block_id on: a block replaces the best one
\* only with strictly more invalid pages; -1 stands for None
RECURSIVE select_victim_from(_, _, _, _)
select_victim_from(S, block_id, best_block, best_invalid) ==
    IF block_id >= TotalBlocks THEN best_block
    ELSE IF invalid_count_in_block(S, block_id) > best_invalid
         THEN select_victim_from(S, block_id + 1, block_id,
                                 invalid_count_in_block(S, block_id))
         ELSE select_victim_from(S, block_id + 1, best_block, best_invalid)

\* a victim selection that never answers None: block 0 when nothing is invalid
select_victim_never_none(S) == select_victim_from(S, 0, 0, 0)

select_victim(S) == select_victim_from(S, 0, -1, 0)

\* the copy loop of _collect_block over the snapshot of the victim's valid pages
RECURSIVE copy_valid_pages(_, _)
copy_valid_pages(S, ps) ==
    LET relocate(S1, old, new, ptype) ==
            IF ptype = "translation" THEN relocate_tp_page(S1, old, new)
            ELSE relocate_data_page(S1, old, new)
        copy(a, old, ptype) ==
            IF a.S.err THEN a.S
            ELSE copy_valid_pages(relocate(write_page(a.S, a.pid, ptype), old, a.pid, ptype),
                                  Tail(ps))
    IN IF S.err \/ ps = <<>> THEN S
       ELSE copy(allocate_page(read_page(Add(S, "gc_pages_copied", 1), Head(ps).pid, Head(ps).ptype)),
                 Head(ps).pid, Head(ps).ptype)

\* the part of the state a collection round is judged on
Snapshot(S) == [occupied |-> S.occupied, valid |-> S.valid, page_types |-> S.page_types,
                pages |-> S.pages, cache |-> S.cache, m |-> S.m]

collect_block(S, b) ==
    LET typed(vp) == [i \in 1 .. Len(vp) |-> [pid |-> vp[i], ptype |-> S.page_types[vp[i]]]]
        logged(S2) == [S2 EXCEPT !.gc_log = Append(@, [victim |-> b, pre |-> Snapshot(S),
                                                       post |-> Snapshot(S2)])]
        erase(S1) == IF S1.err THEN S1 ELSE logged(erase_block(S1, b))
    IN erase(copy_valid_pages(Add(S, "gc_invocations", 1), typed(valid_pages_in_block(S, b))))

\* gc.run: [S, rounds]
RECURSIVE gc_loop(_, _, _, _)
gc_loop(S, rounds, max_rounds, force) ==
    LET again(S1) ==
            IF S1.err THEN [S |-> S1, rounds |-> rounds]
            ELSE gc_loop(S1, rounds + 1, max_rounds, FALSE)
        round(victim) ==
            IF victim = -1 THEN [S |-> S, rounds |-> rounds]
            ELSE again(collect_block(S, victim))
    IN IF rounds >= max_rounds THEN [S |-> S, rounds |-> rounds]
       ELSE IF ~force /\ ~should_run(S) THEN [S |-> S, rounds |-> rounds]
       ELSE round(select_victim(S))

gc_run(S, max_rounds, force) == gc_loop(S, 0, max_rounds, force)

(***************************************************************************)
(* KVSSD (src/src/kvssd.py)                                                *)
(***************************************************************************)
\* _allocate_with_gc: [S, pid]
allocate_with_gc(S) ==
    LET retry(g) ==
            IF g.S.err THEN [S |-> g.S, pid |-> NoPage]
            ELSE IF g.rounds = 0 THEN [S |-> [g.S EXCEPT !.err = TRUE], pid |-> NoPage]
            ELSE allocate_page(g.S)
        try(a) == IF ~a.S.err THEN a ELSE retry(gc_run(S, TotalBlocks, TRUE))
    IN try(allocate_page(S))

\* baseline policy: should_inline
should_inline(value_size) == value_size <= PpaSize

free_old_entry(S, kh) ==
    LET free(old) ==
            IF old # NoEntry /\ ~old.is_inline /\ old.data_page_id >= 0
            THEN free_page(S, old.data_page_id)
            ELSE S
    IN free(find_entry(S, kh).entry)

put_regular(S, kh, ks, vs) ==
    LET persist(S2, tp, e) ==
            Add(cmt_insert(write_page(S2, S2.pages[tp].flash_page_id, "translation"),
                           kh, e, FALSE),
                "regular_entries", 1)
        store(S1, tp, e) ==
            persist([S1 EXCEPT !.pages = [@ EXCEPT ![tp] = tp_insert(@, e)]], tp, e)
        write(a, tp) ==
            IF a.S.err THEN a.S
            ELSE store(write_page(a.S, a.pid, "data"), tp,
                       MappingEntry(kh, ks, vs, FALSE, a.pid, 1))
        place(f) ==
            IF f.S.err \/ f.tp = -1 THEN f.S ELSE write(allocate_with_gc(f.S), f.tp)
    IN place(find_tp_for_insert(S, kh, 1))

convert_to_regular(S, tp, old) ==
    LET store(S1, e) ==
            Add(Add(Add(cmt_insert([S1 EXCEPT !.pages = [@ EXCEPT ![tp] = tp_insert(@, e)]],
                                   old.key_hash, e, FALSE),
                        "inline_entries", -1),
                    "regular_entries", 1), "inline_to_regular", 1)
        write(a) ==
            IF a.S.err THEN a.S
            ELSE store(write_page(a.S, a.pid, "data"),
                       MappingEntry(old.key_hash, old.key_size, old.value_size, FALSE, a.pid, 1))
    IN write(allocate_with_gc(S))

put_inline(S, kh, ks, vs) ==
    LET frames == compute_frames(12 + ks + vs)
        persist(S2, tp) ==
            Add(cmt_invalidate(write_page(S2, S2.pages[tp].flash_page_id, "translation"), kh),
                "inline_entries", 1)
        store(S1, tp) ==
            IF S1.err THEN S1
            ELSE IF ~has_space(S1.pages[tp], frames) THEN put_regular(S1, kh, ks, vs)
            ELSE persist([S1 EXCEPT !.pages = [@ EXCEPT ![tp] =
                              tp_insert(@, MappingEntry(kh, ks, vs, TRUE, NoPage, frames))]], tp)
        evict(S0, tp, ev) ==
            IF ev.evicted # NoEntry
            THEN convert_to_regular([S0 EXCEPT !.pages = [@ EXCEPT ![tp] = ev.tp]], tp, ev.evicted)
            ELSE [S0 EXCEPT !.pages = [@ EXCEPT ![tp] = ev.tp]]
        place(f) ==
            IF f.S.err THEN f.S
            ELSE IF f.tp = -1 THEN put_regular(f.S, kh, ks, vs)
            ELSE IF has_space(f.S.pages[f.tp], frames) THEN store(f.S, f.tp)
            ELSE store(evict(f.S, f.tp, evict_one_inline(f.S.pages[f.tp])), f.tp)
    IN place(find_tp_for_insert(S, kh, frames))

\* a new request: the exception flag and the round log of the last one are gone
Begin(S) == [S EXCEPT !.err = FALSE, !.gc_log = <<>>]

\* put under a policy whose should_inline answers `inline`
put_decided(S, kh, ks, vs, inline) ==
    LET collect(S2) ==
            IF S2.err THEN S2
            ELSE IF should_run(S2) THEN gc_run(S2, GcDefaultRounds, FALSE).S
            ELSE S2
        write(S1) ==
            IF inline THEN collect(put_inline(S1, kh, ks, vs))
            ELSE collect(put_regular(S1, kh, ks, vs))
    IN write(free_old_entry(Add(Add(Begin(S), "total_puts", 1), "host_writes", 1), kh))

\* put under the baseline policy
put(S, kh, ks, vs) ==
    LET collect(S2) ==
            IF S2.err THEN S2
            ELSE IF should_run(S2) THEN gc_run(S2, GcDefaultRounds, FALSE).S
            ELSE S2
        write(S1) ==
            IF should_inline(vs) THEN collect(put_inline(S1, kh, ks, vs))
            ELSE collect(put_regular(S1, kh, ks, vs))
    IN write(free_old_entry(Add(Add(Begin(S), "total_puts", 1), "host_writes", 1), kh))

\* _send_feedback: a call of policy.feedback, when the policy has that method
send_feedback(S) ==
    IF S.has_feedback THEN [S EXCEPT !.feedback_count = @ + 1] ELSE S

\* a get that looks the key up with find_tp_for_insert, which materializes the
\* pages it probes
get_creating(S, kh) ==
    LET looked(f) == [S |-> f.S, found |-> f.tp # -1]
    IN looked(find_tp_for_insert(Add(Begin(S), "total_gets", 1), kh, 1))

\* get: [S, found]
get(S, kh) ==
    LET hit(S1, e) ==
            [S |-> end_get_request(IF ~e.is_inline THEN read_page(S1, e.data_page_id, "data")
                                   ELSE S1),
             found |-> TRUE]
        read(S2, e) ==
            IF e.is_inline THEN [S |-> end_get_request(send_feedback(S2)), found |-> TRUE]
            ELSE [S |-> end_get_request(send_feedback(
                            read_page(cmt_insert(S2, kh, e, FALSE), e.data_page_id, "data"))),
                  found |-> TRUE]
        miss(S1, r) ==
            IF r.tp = -1 THEN [S |-> end_get_request(S1), found |-> FALSE]
            ELSE read(read_page(S1, S1.pages[r.tp].flash_page_id, "translation"), r.entry)
        looked(l) ==
            IF l.entry # NoEntry THEN hit(Add(l.S, "cmt_hits", 1), l.entry)
            ELSE miss(Add(l.S, "cmt_misses", 1), find_entry(l.S, kh))
    IN looked(cmt_lookup(begin_request(Add(Begin(S), "total_gets", 1)), kh))

\* a delete that counts a lookup that finds nothing as a CMT miss
delete_counting_miss(S, kh) ==
    LET remove(S0, r) ==
            IF r.tp = -1 THEN [S |-> Add(S0, "cmt_misses", 1), found |-> FALSE]
            ELSE [S |-> S0, found |-> TRUE]
    IN remove(Add(Begin(S), "total_deletes", 1), find_entry(S, kh))

\* delete: [S, found]
delete(S, kh) ==
    LET free(S3, e) ==
            IF ~e.is_inline /\ e.data_page_id >= 0 THEN free_page(S3, e.data_page_id) ELSE S3
        count(S2, e) ==
            IF e.is_inline THEN free(Add(S2, "inline_entries", -1), e)
            ELSE free(Add(S2, "regular_entries", -1), e)
        remove(S0, r) ==
            IF r.tp = -1 THEN [S |-> S0, found |-> FALSE]
            ELSE [S |-> count(cmt_invalidate([S0 EXCEPT !.pages = [@ EXCEPT ![r.tp] =
                                                   tp_remove(@, kh)]], kh),
                              r.entry),
                  found |-> TRUE]
    IN remove(Add(Begin(S), "total_deletes", 1), find_entry(S, kh))

(***************************************************************************)
(* The state machine: one action per KVSSD operation.  `seq` remembers     *)
(* whether the last operation was a put of a key that returned (and        *)
(* whether the probe sequence of the key had room for it), or a delete of  *)
(* the key right after such a put.                                         *)
(***************************************************************************)
Other == [kind |-> "other", key |-> 0, room |-> FALSE]

\* some translation page of the probe sequence of kh holds kh or has a free frame
HasRoom(S, kh) ==
    \E r \in 0 .. (MaxRetry - 1) :
        \/ tp_find(S.pages[get_tp_id(kh, r)], kh) # NoEntry
        \/ has_space(S.pages[get_tp_id(kh, r)], 1)

InitSsd(read_capacity) ==
    [occupied |-> {}, valid |-> {}, page_types |-> [p \in Pages |-> "none"],
     next_page |-> 0,
     pages |-> [t \in TpIds |-> NoTp], order |-> <<>>,
     cache |-> <<>>, read_capacity |-> read_capacity,
     m |-> InitMetrics,
     has_feedback |-> FALSE, feedback_count |-> 0,
     err |-> FALSE, gc_log |-> <<>>]

Init ==
    /\ \E c \in ReadCapacities : ssd = InitSsd(c)
    /\ seq = Other

Put(k, vs) ==
    /\ total_ops(ssd.m) < MaxOps
    /\ ssd' = put(ssd, k, KeySize, vs)
    /\ seq' = IF ssd'.err THEN Other
              ELSE [kind |-> "put", key |-> k, room |-> HasRoom(ssd, k)]

Get(k) ==
    /\ total_ops(ssd.m) < MaxOps
    /\ ssd' = get(ssd, k).S
    /\ seq' = Other

Delete(k) ==
    /\ total_ops(ssd.m) < MaxOps
    /\ ssd' = delete(ssd, k).S
    /\ seq' = IF seq.kind = "put" /\ seq.key = k
              THEN [kind |-> "put_delete", key |-> k, room |-> FALSE]
              ELSE Other

Next ==
    \/ \E k \in Keys, vs \in ValueSizes : Put(k, vs)
    \/ \E k \in Keys : Get(k)
    \/ \E k \in Keys : Delete(k)

Spec == Init /\ [][Next]_vars

(***************************************************************************)
(* Flash driven directly through its own interface (as src/tests do): any  *)
(* page may be written with either type, freed, or its block erased.       *)
(***************************************************************************)
PageTypes == {"data", "translation"}

FlashWrite(p, ptype) ==
    /\ ssd.m.flash_writes + ssd.m.flash_erases < MaxFlashOps
    /\ ssd' = write_page(ssd, p, ptype)
    /\ UNCHANGED seq

FlashAllocate ==
    /\ ssd' = allocate_page([ssd EXCEPT !.err = FALSE]).S
    /\ UNCHANGED seq

FlashFree(p) ==
    /\ ssd' = free_page(ssd, p)
    /\ UNCHANGED seq

FlashErase(b) ==
    /\ ssd.m.flash_writes + ssd.m.flash_erases < MaxFlashOps
    /\ ssd' = erase_block(ssd, b)
    /\ UNCHANGED seq

NextFlash ==
    \/ \E p \in Pages, ptype \in PageTypes : FlashWrite(p, ptype)
    \/ FlashAllocate
    \/ \E p \in Pages : FlashFree(p)
    \/ \E b \in Blocks : FlashErase(b)

InitFlash ==
    /\ ssd = InitSsd(1)
    /\ seq = Other

SpecFlash == InitFlash /\ [][NextFlash]_vars

(***************************************************************************)
(* Flash as its callers use it: a page is taken from allocate_page and is  *)
(* written, if at all, after it was handed out (GMD.get_or_create_tp keeps *)
(* the page without writing it); a written page is freed; a block is       *)
(* erased.  `seq` remembers the pages handed out whose block was not       *)
(* erased since.                                                           *)
(***************************************************************************)
\* the number of writes and erases a run issues on pages it was handed
MaxAllocOps == 8

Handed(ps) == [kind |-> "handed", pages |-> ps]

AllocPage ==
    /\ ssd' = allocate_page([ssd EXCEPT !.err = FALSE]).S
    /\ seq' = IF ssd'.err THEN seq
              ELSE Handed(seq.pages \cup {allocate_page([ssd EXCEPT !.err = FALSE]).pid})

AllocWrite(p) ==
    /\ ssd.m.flash_writes + ssd.m.flash_erases < MaxAllocOps
    /\ p \in seq.pages
    /\ ssd' = write_page(ssd, p, "data")
    /\ UNCHANGED seq

AllocFree(p) ==
    /\ p \in ssd.valid
    /\ ssd' = free_page(ssd, p)
    /\ UNCHANGED seq

AllocErase(b) ==
    /\ ssd.m.flash_writes + ssd.m.flash_erases < MaxAllocOps
    /\ ssd' = erase_block(ssd, b)
    /\ seq' = Handed(seq.pages \ BlockPages(b))

NextAlloc ==
    \/ AllocPage
    \/ \E p \in Pages : AllocWrite(p)
    \/ \E p \in Pages : AllocFree(p)
    \/ \E b \in Blocks : AllocErase(b)

InitAlloc ==
    /\ ssd = InitSsd(1)
    /\ seq = Handed({})

SpecAlloc == InitAlloc /\ [][NextAlloc]_vars

(***************************************************************************)
(* The device under a policy that has a feedback method (ml_linear,        *)
(* ml_bandit in src/src/ml_policies.py).  During warm-up such a policy     *)
(* answers should_inline at random, so a put may take either answer.       *)
(***************************************************************************)
\* the number of operations a run issues under a feedback policy
MaxFeedbackOps == 5

FeedbackPut(k, vs, inline) ==
    /\ total_ops(ssd.m) < MaxFeedbackOps
    /\ ssd' = put_decided(ssd, k, KeySize, vs, inline)
    /\ UNCHANGED seq

FeedbackGet(k) ==
    /\ total_ops(ssd.m) < MaxFeedbackOps
    /\ ssd' = get(ssd, k).S
    /\ UNCHANGED seq

FeedbackDelete(k) ==
    /\ total_ops(ssd.m) < MaxFeedbackOps
    /\ ssd' = delete(ssd, k).S
    /\ UNCHANGED seq

NextFeedback ==
    \/ \E k \in Keys, vs \in ValueSizes, inline \in BOOLEAN : FeedbackPut(k, vs, inline)
    \/ \E k \in Keys : FeedbackGet(k)
    \/ \E k \in Keys : FeedbackDelete(k)

InitFeedback ==
    /\ \E c \in ReadCapacities : ssd = [InitSsd(c) EXCEPT !.has_feedback = TRUE]
    /\ seq = Other

SpecFeedback == InitFeedback /\ [][NextFeedback]_vars

(***************************************************************************)
(* The CMT on its own (src/src/cmt.py), driven through its public methods   *)
(* as tests/test_cmt.py drives it: more keys than the cache has room for,   *)
(* regular and inline entries, inline entries cached on request             *)
(* (cache_inline).  `seq` remembers the last call: its method, key, the     *)
(* entry inserted or returned, the pages of an update, whether an insert    *)
(* put a regular entry of a key that was not cached into a full cache, and  *)
(* the key a lookup hit just before it.                                     *)
(***************************************************************************)
\* the number of calls a run issues on the CMT
MaxCmtOps == 6

CmtKeys == 0 .. 3
CmtCapacities == 1 .. 3
CmtPages == {0, 1}

\* the entries a caller holds for key k
CmtEntries(k) ==
    {MappingEntry(k, KeySize, PpaSize + 1, FALSE, p, 1) : p \in CmtPages}
        \cup {MappingEntry(k, KeySize, EntrySize - 12 - KeySize, TRUE, NoPage, 1)}

Called(kind, k, e, old, new) ==
    [kind |-> kind, key |-> k, entry |-> e, old |-> old, new |-> new,
     evicting |-> FALSE, after_hit |-> -1, n |-> seq.n + 1]

CmtInsert(k, e, cache_inline) ==
    /\ seq.n < MaxCmtOps
    /\ ssd' = cmt_insert(ssd, k, e, cache_inline)
    /\ seq' = [Called("insert", k, e, NoPage, NoPage) EXCEPT
                  !.evicting = /\ ~e.is_inline
                               /\ IndexOf(ssd.cache, k) = 0
                               /\ Len(ssd.cache) = ssd.read_capacity,
                  !.after_hit = IF seq.kind = "lookup" /\ seq.entry # NoEntry
                                THEN seq.key ELSE -1]

CmtLookup(k) ==
    /\ seq.n < MaxCmtOps
    /\ ssd' = cmt_lookup(ssd, k).S
    /\ seq' = Called("lookup", k, cmt_lookup(ssd, k).entry, NoPage, NoPage)

CmtInvalidate(k) ==
    /\ seq.n < MaxCmtOps
    /\ ssd' = cmt_invalidate(ssd, k)
    /\ seq' = Called("invalidate", k, NoEntry, NoPage, NoPage)

CmtUpdateDataPage(old, new) ==
    /\ seq.n < MaxCmtOps
    /\ ssd' = update_data_page(ssd, old, new)
    /\ seq' = Called("update", 0, NoEntry, old, new)

NextCmt ==
    \/ \E k \in CmtKeys, cache_inline \in BOOLEAN :
            \E e \in CmtEntries(k) : CmtInsert(k, e, cache_inline)
    \/ \E k \in CmtKeys : CmtLookup(k)
    \/ \E k \in CmtKeys : CmtInvalidate(k)
    \/ \E old \in CmtPages \cup {NoPage}, new \in CmtPages : CmtUpdateDataPage(old, new)

InitCmt ==
    /\ \E c \in CmtCapacities : ssd = InitSsd(c)
    /\ seq = [kind |-> "none", key |-> 0, entry |-> NoEntry, old |-> NoPage,
              new |-> NoPage, evicting |-> FALSE, after_hit |-> -1, n |-> 0]

SpecCmt == InitCmt /\ [][NextCmt]_vars

(***************************************************************************)
(* The device under the baseline policy at the policy's threshold           *)
(* (the baseline tests of tests/test_kvssd.py): puts of values of ppa_size  *)
(* and ppa_size + 1 bytes and of a one-frame value, and deletes, on keys    *)
(* with different first probe slots.  `seq` remembers the last operation,   *)
(* for a put whether a page of the key's probe sequence had the free frames *)
(* of an inline entry (fits) or one free frame (fits_one), and whether the  *)
(* run so far consists of puts of distinct keys that all found such room    *)
(* with values up to ppa_size (small) or above it (large).                  *)
(***************************************************************************)
\* the number of operations a run issues at the baseline threshold
MaxBaselineOps == 5

BaselineKeys == 0 .. 2
BaselineSizes == {EntrySize - 12 - KeySize, PpaSize, PpaSize + 1}

\* some translation page of the probe sequence of kh has frames free frames
Fits(S, kh, frames) ==
    \E r \in 0 .. (MaxRetry - 1) : has_space(S.pages[get_tp_id(kh, r)], frames)

BaselinePut(k, vs) ==
    /\ total_ops(ssd.m) < MaxBaselineOps
    /\ ssd' = put(ssd, k, KeySize, vs)
    /\ seq' = [kind |-> "put", key |-> k, vs |-> vs,
               fits |-> Fits(ssd, k, compute_frames(12 + KeySize + vs)),
               fits_one |-> Fits(ssd, k, 1),
               keys |-> seq.keys \cup {k},
               small |-> /\ seq.small /\ k \notin seq.keys /\ vs <= PpaSize
                         /\ Fits(ssd, k, compute_frames(12 + KeySize + vs)),
               large |-> /\ seq.large /\ k \notin seq.keys /\ vs > PpaSize
                         /\ Fits(ssd, k, 1)]

BaselineDelete(k) ==
    /\ total_ops(ssd.m) < MaxBaselineOps
    /\ ssd' = delete(ssd, k).S
    /\ seq' = [kind |-> "delete", key |-> k, vs |-> 0, fits |-> FALSE,
               fits_one |-> FALSE, keys |-> seq.keys, small |-> FALSE, large |-> FALSE]

NextBaseline ==
    \/ \E k \in BaselineKeys, vs \in BaselineSizes : BaselinePut(k, vs)
    \/ \E k \in BaselineKeys : BaselineDelete(k)

InitBaseline ==
    /\ \E c \in ReadCapacities : ssd = InitSsd(c)
    /\ seq = [kind |-> "none", key |-> 0, vs |-> 0, fits |-> FALSE,
              fits_one |-> FALSE, keys |-> {}, small |-> TRUE, large |-> TRUE]

SpecBaseline == InitBaseline /\ [][NextBaseline]_vars

(***************************************************************************)
(* KVPackSPolicy and KVPackDPolicy (src/src/inlining.py).  _frame_counts is *)
(* a dict: a sequence of [frames, count] in insertion order, which is the   *)
(* order max() breaks ties in.                                              *)
(***************************************************************************)
\* _frame_counts[frames] = _frame_counts.get(frames, 0) + 1
CountFrames(fc, frames) ==
    IF \E i \in 1 .. Len(fc) : fc[i].frames = frames
    THEN [i \in 1 .. Len(fc) |->
            IF fc[i].frames = frames THEN [fc[i] EXCEPT !.count = @ + 1] ELSE fc[i]]
    ELSE Append(fc, [frames |-> frames, count |-> 1])

\* max(_frame_counts, key=_frame_counts.get): the first key with the largest count
Popular(fc) ==
    fc[CHOOSE i \in 1 .. Len(fc) :
            /\ \A j \in 1 .. Len(fc) : fc[j].count <= fc[i].count
            /\ \A j \in 1 .. (i - 1) : fc[j].count < fc[i].count].frames

KVPackSPolicy(warmup) ==
    [warmup |-> warmup, threshold |-> 0, frame_counts |-> <<>>, ios_seen |-> 0,
     profiling_done |-> FALSE]

kvpack_s_should_inline(p, key_size, value_size) ==
    IF ~p.profiling_done THEN FALSE
    ELSE key_size + value_size + 12 <= p.threshold

\* a threshold of one frame whatever was profiled
set_threshold_one_frame(p) ==
    [p EXCEPT !.threshold = EntrySize, !.profiling_done = TRUE]

set_threshold(p) ==
    IF p.frame_counts = <<>> THEN [p EXCEPT !.profiling_done = TRUE]
    ELSE [p EXCEPT !.threshold = Popular(p.frame_counts) * EntrySize,
                   !.profiling_done = TRUE]

\* an update that goes on profiling after the warmup
kvpack_s_update_again(p, key_size, value_size) ==
    LET counted == [p EXCEPT !.ios_seen = @ + 1,
                             !.frame_counts = CountFrames(@, compute_frames(key_size + value_size + 12))]
    IN IF counted.ios_seen >= p.warmup THEN set_threshold(counted) ELSE counted

kvpack_s_update(p, key_size, value_size) ==
    IF p.profiling_done THEN p
    ELSE LET counted == [p EXCEPT !.ios_seen = @ + 1,
                                  !.frame_counts = CountFrames(@, compute_frames(key_size + value_size + 12))]
         IN IF counted.ios_seen >= p.warmup THEN set_threshold(counted) ELSE counted

KVPackDPolicy(warmup, interval) ==
    [warmup |-> warmup, interval |-> interval, threshold |-> 0, frame_counts |-> <<>>,
     ios_seen |-> 0, total_ios |-> 0, initialized |-> FALSE]

kvpack_d_should_inline(p, key_size, value_size) ==
    IF ~p.initialized THEN FALSE
    ELSE key_size + value_size + 12 <= p.threshold

\* a recomputation that takes the new value whether it is larger or not
recompute_threshold_always(p) ==
    IF p.frame_counts = <<>> THEN p
    ELSE [p EXCEPT !.threshold = Popular(p.frame_counts) * EntrySize,
                   !.frame_counts = <<>>, !.ios_seen = 0]

recompute_threshold(p) ==
    IF p.frame_counts = <<>> THEN p
    ELSE [p EXCEPT !.threshold = IF Popular(p.frame_counts) * EntrySize > @
                                 THEN Popular(p.frame_counts) * EntrySize ELSE @,
                   !.frame_counts = <<>>, !.ios_seen = 0]

kvpack_d_update(p, key_size, value_size) ==
    LET counted == [p EXCEPT !.total_ios = @ + 1, !.ios_seen = @ + 1,
                             !.frame_counts = CountFrames(@, compute_frames(key_size + value_size + 12))]
    IN IF ~counted.initialized /\ counted.total_ios >= p.warmup
       THEN [recompute_threshold(counted) EXCEPT !.initialized = TRUE]
       ELSE IF counted.initialized /\ counted.ios_seen >= p.interval
       THEN recompute_threshold(counted)
       ELSE counted

(***************************************************************************)
(* The device under kvpack_s or kvpack_d (create_policy), with a policy     *)
(* object of the other kind fed the same stream of puts.  KVSSD.put calls   *)
(* policy.update and then policy.should_inline (kvssd.py 108-110).  `seq`   *)
(* remembers, for the last put, the answers of both policies, the frame     *)
(* counts of the puts so far, and whether the put made KVPack-D re-evaluate *)
(* to a value below its threshold.                                          *)
(***************************************************************************)
\* the number of puts a run issues under a profiling policy
MaxPolicyOps == 5

Warmups == 1 .. 3
Intervals == 1 .. 2
PolicySizes == ValueSizes \cup {2 * EntrySize - 12 - KeySize + 1}

PolicyPut(k, vs) ==
    /\ ssd.m.total_puts < MaxPolicyOps
    /\ ssd' = put_decided(
                [ssd EXCEPT !.policy_s = kvpack_s_update(@, KeySize, vs),
                            !.policy_d = kvpack_d_update(@, KeySize, vs)],
                k, KeySize, vs,
                IF ssd.mode = "kvpack_s"
                THEN kvpack_s_should_inline(kvpack_s_update(ssd.policy_s, KeySize, vs), KeySize, vs)
                ELSE kvpack_d_should_inline(kvpack_d_update(ssd.policy_d, KeySize, vs), KeySize, vs))
    /\ seq' = [kind |-> "put", key |-> k, vs |-> vs,
               inline_s |-> kvpack_s_should_inline(kvpack_s_update(ssd.policy_s, KeySize, vs), KeySize, vs),
               inline_d |-> kvpack_d_should_inline(kvpack_d_update(ssd.policy_d, KeySize, vs), KeySize, vs),
               frames |-> Append(seq.frames, compute_frames(KeySize + vs + 12)),
               lower |-> /\ ssd.policy_d.initialized
                         /\ ssd.policy_d.ios_seen + 1 >= ssd.policy_d.interval
                         /\ Popular(CountFrames(ssd.policy_d.frame_counts,
                                                compute_frames(KeySize + vs + 12))) * EntrySize
                                < ssd.policy_d.threshold]

NextPolicy == \E k \in Keys, vs \in PolicySizes : PolicyPut(k, vs)

InitPolicy ==
    /\ \E c \in ReadCapacities, mode \in {"kvpack_s", "kvpack_d"},
          warmup \in Warmups, interval \in Intervals :
            ssd = InitSsd(c) @@ [mode |-> mode, policy_s |-> KVPackSPolicy(warmup),
                                 policy_d |-> KVPackDPolicy(warmup, interval)]
    /\ seq = [kind |-> "none", key |-> 0, vs |-> 0, inline_s |-> FALSE,
              inline_d |-> FALSE, frames |-> <<>>, lower |-> FALSE]

SpecPolicy == InitPolicy /\ [][NextPolicy]_vars

(***************************************************************************)
(* Vocabulary of the properties                                            *)
(***************************************************************************)
\* the (translation page, index) places that hold an entry in the pages P
Places(P) == UNION {{<<t, i>> : i \in 1 .. Len(P[t].entries)} : t \in TpIds}

At(P, x) == P[x[1]].entries[x[2]]

RegularPlaces(P) == {x \in Places(P) : ~At(P, x).is_inline}

RECURSIVE SumFrames(_)
SumFrames(es) == IF es = <<>> THEN 0 ELSE Head(es).frames_used + SumFrames(Tail(es))

CountInline(es) == Cardinality({i \in 1 .. Len(es) : es[i].is_inline})

\* the flash reads the histogram h of reads per GET accounts for
RECURSIVE WeightedSum(_, _)
WeightedSum(h, cs) ==
    IF cs = {} THEN 0
    ELSE LET c == CHOOSE x \in cs : TRUE
         IN c * h[c] + WeightedSum(h, cs \ {c})

HistogramReads(m) == WeightedSum(m.reads_by_flash_count, DOMAIN m.reads_by_flash_count)

\* the number of samples in the histogram of reads per GET
RECURSIVE SampleSum(_, _)
SampleSum(h, cs) ==
    IF cs = {} THEN 0
    ELSE LET c == CHOOSE x \in cs : TRUE
         IN h[c] + SampleSum(h, cs \ {c})

HistogramSamples(m) == SampleSum(m.reads_by_flash_count, DOMAIN m.reads_by_flash_count)

\* what get(k) would return in the current state
GetReturns(k) == get(ssd, k).found

\* the completed collection rounds of the last operation
Rounds == 1 .. Len(ssd.gc_log)

\* the pages of the victim that were valid when round i began
Moved(i) == ssd.gc_log[i].pre.valid \cap BlockPages(ssd.gc_log[i].victim)

(***************************************************************************)
(* C1: in every reachable state every regular MappingEntry stored in a     *)
(* translation page has its data_page_id in Flash's valid set.             *)
(***************************************************************************)
C1_RegularEntriesValid ==
    \A x \in RegularPlaces(ssd.pages) : At(ssd.pages, x).data_page_id \in ssd.valid

(***************************************************************************)
(* C2: after a collection round, every page that was valid in the victim   *)
(* is referenced by its owner (entry or translation page) at a new page    *)
(* that is valid after the erase, and no entry or translation page points  *)
(* into the erased block.                                                  *)
(***************************************************************************)
C2_RoundRelocatesOwners ==
    \A i \in Rounds :
        LET b == ssd.gc_log[i].victim
            pre == ssd.gc_log[i].pre
            post == ssd.gc_log[i].post
        IN /\ \A x \in RegularPlaces(pre.pages) :
                  At(pre.pages, x).data_page_id \in Moved(i)
                  => /\ At(post.pages, x).data_page_id \in post.valid
                     /\ At(post.pages, x).data_page_id \notin BlockPages(b)
           /\ \A t \in TpIds :
                  (pre.pages[t].present /\ pre.pages[t].flash_page_id \in Moved(i))
                  => /\ post.pages[t].flash_page_id \in post.valid
                     /\ post.pages[t].flash_page_id \notin BlockPages(b)
           /\ \A x \in RegularPlaces(post.pages) :
                  At(post.pages, x).data_page_id \notin BlockPages(b)
           /\ \A t \in TpIds :
                  post.pages[t].present => post.pages[t].flash_page_id \notin BlockPages(b)

(***************************************************************************)
(* C3: after put(k, vs) followed by delete(k), get(k) returns false.       *)
(***************************************************************************)
C3_PutDeleteGetFalse == seq.kind = "put_delete" => ~GetReturns(seq.key)

(***************************************************************************)
(* C4: at most one MappingEntry per key_hash exists across all translation *)
(* pages, and at most one in the CMT.                                      *)
(***************************************************************************)
C4_OneEntryPerKey ==
    /\ \A x, y \in Places(ssd.pages) :
           At(ssd.pages, x).key_hash = At(ssd.pages, y).key_hash => x = y
    /\ \A i, j \in 1 .. Len(ssd.cache) :
           ssd.cache[i].key_hash = ssd.cache[j].key_hash => i = j

(***************************************************************************)
(* C5 (as claimed): a put(k, vs) that returns without raising is followed  *)
(* by get(k) returning true.                                               *)
(***************************************************************************)
C5_PutGetTrue == seq.kind = "put" => GetReturns(seq.key)

(***************************************************************************)
(* C5 (amended): a put(k, vs) that returns without raising, issued when    *)
(* some translation page of k's probe sequence holds k or has a free       *)
(* frame, is followed by get(k) returning true.                            *)
(***************************************************************************)
C5_PutWithRoomGetTrue == (seq.kind = "put" /\ seq.room) => GetReturns(seq.key)

\* a put returned, with room, through a page that was full before (the key was stored
\* by overwrite or after an eviction)
C5_Witness ==
    /\ seq.kind = "put" /\ seq.room
    /\ ssd.m.total_puts >= 3
    /\ \E t \in TpIds : ssd.pages[t].used_frames = FramesPerTp
    /\ GetReturns(seq.key)

(***************************************************************************)
(* C6: for every translation page, used_frames equals the sum of           *)
(* frames_used over its entries and never exceeds total_frames.            *)
(***************************************************************************)
C6_FramesAccounted ==
    \A t \in TpIds :
        /\ ssd.pages[t].used_frames = SumFrames(ssd.pages[t].entries)
        /\ ssd.pages[t].used_frames <= FramesPerTp

\* an eviction-conversion has happened, an entry has been removed, and a page is full
\* with a regular and an inline entry side by side
C6_Witness ==
    /\ ssd.m.inline_to_regular > 0
    /\ ssd.m.total_deletes > 0
    /\ \E t \in TpIds :
           /\ ssd.pages[t].used_frames = FramesPerTp
           /\ \E i, j \in 1 .. Len(ssd.pages[t].entries) :
                  ssd.pages[t].entries[i].is_inline /\ ~ssd.pages[t].entries[j].is_inline

(***************************************************************************)
(* C7: for every translation page, num_inline equals the number of its     *)
(* entries with is_inline = true.                                          *)
(***************************************************************************)
C7_InlineCounted ==
    \A t \in TpIds : ssd.pages[t].num_inline = CountInline(ssd.pages[t].entries)

\* after evict_one_inline and a conversion, a page still holds an inline entry
C7_Witness ==
    /\ ssd.m.inline_to_regular > 0
    /\ \E t \in TpIds : ssd.pages[t].num_inline > 0 /\ Len(ssd.pages[t].entries) > ssd.pages[t].num_inline

(***************************************************************************)
(* C8: the CMT read cache holds no entry with is_inline = true, and        *)
(* CMT.insert of an inline entry (cache_inline left at its default, false) *)
(* leaves the cache as it is.                                              *)
(***************************************************************************)
C8_NoInlineCached ==
    /\ \A i \in 1 .. Len(ssd.cache) : ~ssd.cache[i].is_inline
    /\ \A x \in Places(ssd.pages) :
           At(ssd.pages, x).is_inline
           => cmt_insert(ssd, At(ssd.pages, x).key_hash, At(ssd.pages, x), FALSE).cache = ssd.cache

\* the cache holds an entry while the GMD holds an inline entry, after gets and a
\* conversion of an inline entry to a cached regular one
C8_Witness ==
    /\ ssd.cache # <<>>
    /\ \E x \in Places(ssd.pages) : At(ssd.pages, x).is_inline
    /\ ssd.m.total_gets > 0
    /\ ssd.m.inline_to_regular > 0

(***************************************************************************)
(* C9: every key cached in the CMT has an entry in the GMD returned by     *)
(* find_entry, and the cached entry carries the same data_page_id.         *)
(***************************************************************************)
C9_CacheAgreesWithGmd ==
    \A i \in 1 .. Len(ssd.cache) :
        LET r == find_entry(ssd, ssd.cache[i].key_hash)
        IN r.tp # -1 /\ r.entry.data_page_id = ssd.cache[i].data_page_id

(***************************************************************************)
(* C10: the valid set is a subset of the occupied set, and every occupied  *)
(* page has a recorded page type, data or translation.                     *)
(***************************************************************************)
C10_ValidWithinOccupied ==
    /\ ssd.valid \subseteq ssd.occupied
    /\ \A p \in ssd.occupied : ssd.page_types[p] \in {"data", "translation"}

\* after an erase: a block with a written page that was freed beside a valid one
C10_Witness ==
    /\ ssd.m.flash_erases > 0
    /\ \E b \in Blocks :
           /\ (BlockPages(b) \cap ssd.occupied) \ ssd.valid # {}
           /\ BlockPages(b) \cap ssd.valid # {}


(***************************************************************************)
(* C11: allocate_page returns a page that is not in the occupied set (a    *)
(* page that is invalid but still occupied is never returned), and it      *)
(* fails exactly when every page is occupied.                              *)
(***************************************************************************)
C11_AllocatesUnoccupied ==
    LET ok(r) ==
            /\ r.S.err <=> (Pages \subseteq ssd.occupied)
            /\ ~r.S.err => r.pid \in Pages \ ssd.occupied
    IN ok(allocate_page([ssd EXCEPT !.err = FALSE]))

\* an allocation has just failed on a full flash that holds an invalid page
C11_Witness ==
    /\ ssd.err
    /\ Pages \subseteq ssd.occupied
    /\ ssd.valid # ssd.occupied

(***************************************************************************)
(* C12: two calls of allocate_page with no erase of the block between them *)
(* return different pages, also when the first page was not written yet: a *)
(* page that was handed out is not handed out again before its block is    *)
(* erased.  Stated on the next call: it never returns a page handed out    *)
(* since the last erase of the page's block.                               *)
(***************************************************************************)
C12_NoPageHandedTwice ==
    LET fresh(r) == ~r.S.err => r.pid \notin seq.pages
    IN fresh(allocate_page([ssd EXCEPT !.err = FALSE]))

(***************************************************************************)
(* C13: no flash page has two owners: no two regular entries have the same *)
(* data_page_id, no two translation pages have the same flash_page_id, and *)
(* no regular entry's data_page_id is the flash_page_id of a translation   *)
(* page (written or only materialized).                                    *)
(***************************************************************************)
C13_OneOwnerPerPage ==
    /\ \A x, y \in RegularPlaces(ssd.pages) :
           x # y => At(ssd.pages, x).data_page_id # At(ssd.pages, y).data_page_id
    /\ \A t, u \in TpIds :
           (t # u /\ ssd.pages[t].present /\ ssd.pages[u].present)
               => ssd.pages[t].flash_page_id # ssd.pages[u].flash_page_id
    /\ \A x \in RegularPlaces(ssd.pages), t \in TpIds :
           ssd.pages[t].present => At(ssd.pages, x).data_page_id # ssd.pages[t].flash_page_id

(***************************************************************************)
(* C14: put raises "flash full" only when a forced collection can reclaim  *)
(* nothing, that is, when no block holds an invalid page: while some block *)
(* holds an invalid page every failed allocation of the put (data page,    *)
(* new translation page, relocation inside a collection) is recovered and  *)
(* the put returns.  Stated on the state a put leaves when it raises.      *)
(***************************************************************************)
C14_RaisesOnlyIfNothingInvalid ==
    ssd.err => \A b \in Blocks : invalid_count_in_block(ssd, b) = 0

(***************************************************************************)
(* C15: a put that raises "flash full" leaves the device as it was before  *)
(* the call: translation pages and their entries, Flash's occupied and     *)
(* valid sets, the CMT and the metrics are unchanged.                      *)
(***************************************************************************)
C15_RaisingPutChangesNothing ==
    [][ssd'.err =>
          /\ ssd'.pages = ssd.pages
          /\ ssd'.occupied = ssd.occupied
          /\ ssd'.valid = ssd.valid
          /\ ssd'.cache = ssd.cache
          /\ ssd'.m = ssd.m]_vars

(***************************************************************************)
(* C16: delete of a key that has no entry in any translation page returns  *)
(* false and changes nothing but total_deletes, which grows by one: no     *)
(* translation page is materialized, and Flash's sets, the CMT and the     *)
(* other counters stay as they are.                                        *)
(***************************************************************************)
C16_DeleteAbsentChangesNothing ==
    \A k \in Keys :
        (\A x \in Places(ssd.pages) : At(ssd.pages, x).key_hash # k)
            => LET same(r) ==
                       /\ ~r.found
                       /\ r.S.m = [ssd.m EXCEPT !.total_deletes = @ + 1]
                       /\ r.S.pages = ssd.pages
                       /\ r.S.order = ssd.order
                       /\ r.S.occupied = ssd.occupied
                       /\ r.S.valid = ssd.valid
                       /\ r.S.page_types = ssd.page_types
                       /\ r.S.next_page = ssd.next_page
                       /\ r.S.cache = ssd.cache
               IN same(delete(ssd, k))

\* a delete was issued, and the only put of the run still has its entry: the
\* delete met a key without an entry
C16_Witness ==
    /\ ssd.m.total_deletes > 0
    /\ ssd.m.total_puts = 1
    /\ Places(ssd.pages) # {}
    /\ \E k \in Keys : \A x \in Places(ssd.pages) : At(ssd.pages, x).key_hash # k

C18_HistogramExcludesGcReads ==
    HistogramReads(ssd.m) = ssd.m.tp_reads + ssd.m.data_reads - ssd.m.gc_pages_copied

\* a collection copied pages, one get read flash once and one read it twice
C18_Witness ==
    /\ ssd.m.gc_pages_copied > 0
    /\ ssd.m.reads_by_flash_count[1] > 0
    /\ ssd.m.reads_by_flash_count[2] > 0

(***************************************************************************)
(* C19: every get records exactly one sample in reads_by_flash_count: 1 on *)
(* a CMT hit, 0 when the key is not found, 1 when a CMT miss finds an      *)
(* inline entry, 2 when a CMT miss finds a regular entry.  The samples add *)
(* up to total_gets, and get returns false exactly when it records 0.      *)
(***************************************************************************)
C19_OneSamplePerGet ==
    /\ HistogramSamples(ssd.m) = ssd.m.total_gets
    /\ \A k \in Keys :
           LET reads(cached, f) ==
                   IF cached # NoEntry THEN 1
                   ELSE IF f.tp = -1 THEN 0
                   ELSE IF f.entry.is_inline THEN 1
                   ELSE 2
               sampled(r, c) ==
                   /\ r.S.m.reads_by_flash_count
                          = [ssd.m.reads_by_flash_count EXCEPT ![c] = @ + 1]
                   /\ r.found <=> c # 0
           IN sampled(get(ssd, k), reads(cmt_lookup(ssd, k).entry, find_entry(ssd, k)))

\* gets have hit the CMT, missed a key, found an inline entry and found a
\* regular entry on a CMT miss
C19_Witness ==
    /\ ssd.m.cmt_hits > 0
    /\ ssd.m.reads_by_flash_count[0] > 0
    /\ ssd.m.reads_by_flash_count[1] > ssd.m.cmt_hits
    /\ ssd.m.reads_by_flash_count[2] > 0

(***************************************************************************)
(* C20: under a policy that implements feedback, a get that issues at      *)
(* least one flash read (also a CMT hit that reads the data page) results  *)
(* in exactly one feedback call, and a get that issues no flash read       *)
(* results in none.                                                        *)
(***************************************************************************)
C20_FeedbackPerReadingGet ==
    \A k \in Keys :
        LET called(r) ==
                r.feedback_count - ssd.feedback_count
                    = IF r.m.request_flash_reads >= 1 THEN 1 ELSE 0
        IN called(get(ssd, k).S)

\* ---------------------------------------------------------------------
\* C21..C30
\* ---------------------------------------------------------------------

\* the translation page _put_inline is given for a put of k with value size vs
\* begun in the current state
EvictionPage(k, vs) ==
    find_tp_for_insert(ssd, k, compute_frames(12 + KeySize + vs)).tp

\* the entry evict_one_inline takes out of that page
Evicted(k, vs) == FirstInline(ssd.pages[EvictionPage(k, vs)])

\* a put of k with value size vs begun in the current state is an inline put
\* that finds its translation page short of space and evicts the inline entry
\* of another key
EvictsOther(k, vs) ==
    LET frames == compute_frames(12 + KeySize + vs)
        other(f) ==
            /\ ~f.S.err /\ f.tp # -1
            /\ ~has_space(f.S.pages[f.tp], frames)
            /\ FirstInline(f.S.pages[f.tp]) # NoEntry
            /\ FirstInline(f.S.pages[f.tp]).key_hash # k
    IN should_inline(vs) /\ other(find_tp_for_insert(ssd, k, frames))

\* C21: an inline put that finds its translation page short of space and
\* evicts the inline entry of another key leaves the evicted key in the same
\* translation page as a regular entry of one frame whose data page is valid,
\* and counts exactly one conversion: inline_to_regular grows by one,
\* regular_entries by at least one and inline_entries by at most zero.
C21_EvictedKeyStaysStored ==
    \A k \in Keys, vs \in ValueSizes :
        EvictsOther(k, vs) =>
            LET kept(r, tp, ek) ==
                    /\ \E i \in 1 .. Len(r.pages[tp].entries) :
                        /\ r.pages[tp].entries[i].key_hash = ek
                        /\ ~r.pages[tp].entries[i].is_inline
                        /\ r.pages[tp].entries[i].frames_used = 1
                        /\ r.pages[tp].entries[i].data_page_id \in r.valid
                    /\ r.m.inline_to_regular = ssd.m.inline_to_regular + 1
                    /\ r.m.regular_entries - ssd.m.regular_entries \in {1, 2}
                    /\ r.m.inline_entries - ssd.m.inline_entries \in {-1, 0}
            IN kept(put(ssd, k, KeySize, vs), EvictionPage(k, vs),
                    Evicted(k, vs).key_hash)

\* C22: the victim is a block with the largest invalid count, the lowest block
\* id among the blocks that tie for it, and there is no victim exactly when
\* every block has zero invalid pages.
C22_GreedyLowestVictim ==
    LET chosen(v) ==
            IF \A b \in Blocks : invalid_count_in_block(ssd, b) = 0
            THEN v = -1
            ELSE /\ v \in Blocks
                 /\ \A b \in Blocks :
                        invalid_count_in_block(ssd, b) <= invalid_count_in_block(ssd, v)
                 /\ \A b \in Blocks :
                        invalid_count_in_block(ssd, b) = invalid_count_in_block(ssd, v)
                            => v <= b
    IN chosen(select_victim(ssd))

\* two blocks tie for the largest, positive invalid count
C22_Witness ==
    /\ invalid_count_in_block(ssd, 0) > 0
    /\ invalid_count_in_block(ssd, 0) = invalid_count_in_block(ssd, 1)
    /\ select_victim(ssd) = 0

\* gc.run(max_rounds, force) called in the current state has returned r for
\* one of the reasons the loop may stop for: not forced and utilization below
\* the threshold, no block with an invalid page, max_rounds blocks collected
StopsForAReason(r, max_rounds, force) ==
    \/ r.S.err
    \/ ~force /\ ~should_run(r.S)
    \/ \A b \in Blocks : invalid_count_in_block(r.S, b) = 0
    \/ r.rounds >= max_rounds

\* C23: gc.run(max_rounds, force) returns only when it was not forced and
\* utilization is below the threshold, or no block has an invalid page, or
\* max_rounds blocks have been collected; a forced call keeps collecting
\* whatever the utilization.
C23_RunStopsOnlyWhenDone ==
    \A max_rounds \in {1, TotalBlocks, GcDefaultRounds}, force \in BOOLEAN :
        StopsForAReason(gc_run([ssd EXCEPT !.err = FALSE], max_rounds, force),
                        max_rounds, force)

\* C24: when no block contains an invalid page, gc.run returns 0 rounds, with
\* or without force and at any utilization, and changes nothing: no page is
\* copied or erased and every counter keeps its value.
C24_NothingInvalidNothingDone ==
    (\A b \in Blocks : invalid_count_in_block(ssd, b) = 0) =>
        \A max_rounds \in {1, TotalBlocks, GcDefaultRounds}, force \in BOOLEAN :
            gc_run([ssd EXCEPT !.err = FALSE], max_rounds, force)
                = [S |-> [ssd EXCEPT !.err = FALSE], rounds |-> 0]

\* no block holds an invalid page and utilization is at the threshold, so also
\* a run that is not forced goes on to look for a victim
C24_Witness ==
    /\ \A b \in Blocks : invalid_count_in_block(ssd, b) = 0
    /\ should_run(ssd)

\* the growth of counter c over the completed collection round i
RoundGrowth(i, c) == ssd.gc_log[i].post.m[c] - ssd.gc_log[i].pre.m[c]

\* C25: each collected block increments gc_invocations and flash_erases by
\* exactly one and gc_pages_copied, the flash read counters and flash_writes
\* by exactly the number of pages that were valid in the victim, and
\* flash_erases equals gc_invocations in every state reached through KVSSD
\* operations.
C25_RoundAccounting ==
    /\ \A i \in Rounds :
        /\ RoundGrowth(i, "gc_invocations") = 1
        /\ RoundGrowth(i, "flash_erases") = 1
        /\ RoundGrowth(i, "gc_pages_copied") = Cardinality(Moved(i))
        /\ RoundGrowth(i, "tp_reads") + RoundGrowth(i, "data_reads") = Cardinality(Moved(i))
        /\ RoundGrowth(i, "flash_writes") = Cardinality(Moved(i))
    /\ ssd.m.flash_erases = ssd.m.gc_invocations

\* the key hashes of the cached entries, least recently used first
CachedKeys(S) == [i \in 1 .. Len(S.cache) |-> S.cache[i].key_hash]

\* C26: the read cache never holds more than read_capacity entries, and
\* inserting a regular entry for a key that is not cached into a full cache
\* evicts exactly one entry, the least recently used one.
C26_CapacityAndLruEviction ==
    /\ [](Len(ssd.cache) <= ssd.read_capacity)
    /\ [][seq'.kind = "insert" /\ seq'.evicting =>
            ssd'.cache = Append(Tail(ssd.cache), seq'.entry)]_vars

\* a cache of more than one entry was full when the last call inserted a
\* regular entry of a key that was not cached
C26_Witness ==
    /\ seq.kind = "insert" /\ seq.evicting
    /\ ssd.read_capacity > 1
    /\ Len(ssd.cache) = ssd.read_capacity

\* C27: after CMT.insert(k, e) with a regular entry e, k is at the
\* most-recently-used end of the cache, also when k was already cached before
\* the insert.
C27_InsertedKeyIsMostRecent ==
    [][seq'.kind = "insert" /\ ~seq'.entry.is_inline =>
        /\ Len(ssd'.cache) > 0
        /\ ssd'.cache[Len(ssd'.cache)] = seq'.entry]_vars

\* what a lookup does by itself: a hit returns the cached entry and moves its
\* key to the most-recently-used end, the other keys keeping their order; a
\* miss returns None and leaves the cache and its order unchanged
LookupMoves ==
    seq'.kind = "lookup" =>
        IF \E i \in 1 .. Len(ssd.cache) : ssd.cache[i].key_hash = seq'.key
        THEN /\ seq'.entry \in {ssd.cache[i] : i \in 1 .. Len(ssd.cache)}
             /\ seq'.entry.key_hash = seq'.key
             /\ Len(ssd'.cache) = Len(ssd.cache)
             /\ ssd'.cache[Len(ssd'.cache)] = seq'.entry
             /\ \A i, j \in 1 .. Len(ssd.cache) :
                    (i < j /\ ssd.cache[i].key_hash # seq'.key
                           /\ ssd.cache[j].key_hash # seq'.key)
                        => \E a, b \in 1 .. Len(ssd'.cache) :
                              a < b /\ ssd'.cache[a] = ssd.cache[i]
                                    /\ ssd'.cache[b] = ssd.cache[j]
        ELSE seq'.entry = NoEntry /\ ssd'.cache = ssd.cache

\* C28: a lookup that hits moves k to the most-recently-used end and returns
\* the cached entry, a lookup that misses returns None and leaves the cache
\* unchanged, and the insert of a new key into a full cache right after a hit
\* on k evicts the least recently used key and not k.
C28_HitKeySurvivesNextInsert ==
    [][/\ LookupMoves
       /\ (seq.kind = "lookup" /\ seq.entry # NoEntry
              /\ seq'.kind = "insert" /\ seq'.evicting)
            => /\ ssd'.cache = Append(Tail(ssd.cache), seq'.entry)
               /\ \E i \in 1 .. Len(ssd'.cache) : ssd'.cache[i].key_hash = seq.key]_vars

\* C28, for a cache that holds more than one entry: then the least recently
\* used key that the insert evicts is not k.
C28_HitKeySurvivesUnlessAlone ==
    [][/\ LookupMoves
       /\ (seq.kind = "lookup" /\ seq.entry # NoEntry
              /\ seq'.kind = "insert" /\ seq'.evicting)
            => /\ ssd'.cache = Append(Tail(ssd.cache), seq'.entry)
               /\ Len(ssd.cache) > 1 =>
                    \E i \in 1 .. Len(ssd'.cache) : ssd'.cache[i].key_hash = seq.key]_vars

\* the last call inserted a new key into a full cache of three entries right
\* after a lookup that hit, and the key the lookup hit is still cached
C28_Witness ==
    /\ seq.kind = "insert" /\ seq.evicting /\ seq.after_hit # -1
    /\ ssd.read_capacity = 3
    /\ \E i \in 1 .. Len(ssd.cache) : ssd.cache[i].key_hash = seq.after_hit

\* C29: CMT.update_data_page(old, new) sets data_page_id to new for exactly
\* the cached regular entries whose data_page_id equals old, and leaves every
\* other cached entry, every inline entry, the set of cached keys and the LRU
\* order unchanged.
C29_UpdateRewritesMatchingRegular ==
    [][seq'.kind = "update" =>
        /\ CachedKeys(ssd') = CachedKeys(ssd)
        /\ \A i \in 1 .. Len(ssd.cache) :
            /\ (ssd.cache[i].is_inline \/ ssd.cache[i].data_page_id # seq'.old)
                  => ssd'.cache[i] = ssd.cache[i]
            /\ (~ssd.cache[i].is_inline /\ ssd.cache[i].data_page_id = seq'.old)
                  => /\ ssd'.cache[i].data_page_id = seq'.new
                     /\ [ssd'.cache[i] EXCEPT !.data_page_id = seq'.old] = ssd.cache[i]]_vars

\* the last call updated the page number that inline entries carry while an
\* inline entry and a regular entry were cached
C29_Witness ==
    /\ seq.kind = "update" /\ seq.old = NoPage
    /\ \E i \in 1 .. Len(ssd.cache) : ssd.cache[i].is_inline
    /\ \E i \in 1 .. Len(ssd.cache) : ~ssd.cache[i].is_inline

\* C30: under the baseline policy a put that returns is stored inline if and
\* only if value_size <= ppa_size, whenever a translation page of the key's
\* probe sequence has enough free frames; so puts of n distinct keys that all
\* find such room give inline_entries = n and regular_entries = 0 with values
\* up to ppa_size, and the reverse with larger values.
C30_InlineIffWithinPpaSize ==
    [][/\ (seq'.kind = "put" /\ ~ssd'.err /\ seq'.vs <= PpaSize /\ seq'.fits) =>
            /\ find_entry(ssd', seq'.key).entry # NoEntry
            /\ find_entry(ssd', seq'.key).entry.is_inline
       /\ (seq'.kind = "put" /\ ~ssd'.err /\ seq'.vs > PpaSize /\ seq'.fits_one) =>
            /\ find_entry(ssd', seq'.key).entry # NoEntry
            /\ ~find_entry(ssd', seq'.key).entry.is_inline
       /\ (seq'.small /\ ~ssd'.err) =>
            /\ ssd'.m.inline_entries = Cardinality(seq'.keys)
            /\ ssd'.m.regular_entries = 0
       /\ (seq'.large /\ ~ssd'.err) =>
            /\ ssd'.m.regular_entries = Cardinality(seq'.keys)
            /\ ssd'.m.inline_entries = 0]_vars

\* ---------------------------------------------------------------------
\* C31..C40
\* ---------------------------------------------------------------------

\* C31: under kvpack_s with warmup W no put of the first W puts is stored
\* inline: inline_entries stays 0 until more than W puts have been issued.
C31_NoInlineDuringWarmup ==
    (ssd.mode = "kvpack_s" /\ ssd.m.total_puts <= ssd.policy_s.warmup)
        => ssd.m.inline_entries = 0

\* how often frame count f occurred among the first w puts of the run
Occurrences(f, w) == Cardinality({i \in 1 .. w : seq'.frames[i] = f})

\* C32: KVPack-S sets its threshold exactly once, at the W-th update, to
\* entry_size times the frame count that occurred most often among the W
\* profiled puts; before that it is 0 and profiling is not done; afterwards
\* the profiling-done flag stays true and the threshold never changes.
C32_ThresholdSetOnceAtWarmup ==
    [][/\ Len(seq'.frames) < ssd.policy_s.warmup =>
            /\ ~ssd'.policy_s.profiling_done
            /\ ssd'.policy_s.threshold = 0
       /\ Len(seq'.frames) = ssd.policy_s.warmup =>
            /\ ~ssd.policy_s.profiling_done /\ ssd'.policy_s.profiling_done
            /\ \E f \in {seq'.frames[i] : i \in 1 .. ssd.policy_s.warmup} :
                /\ ssd'.policy_s.threshold = EntrySize * f
                /\ \A g \in {seq'.frames[i] : i \in 1 .. ssd.policy_s.warmup} :
                        Occurrences(g, ssd.policy_s.warmup) <= Occurrences(f, ssd.policy_s.warmup)
       /\ Len(seq'.frames) > ssd.policy_s.warmup =>
            /\ ssd.policy_s.profiling_done /\ ssd'.policy_s.profiling_done
            /\ ssd'.policy_s.threshold = ssd.policy_s.threshold]_vars

\* profiling is done, more puts than the warmup were issued, and some put
\* after the warmup had a frame count other than the one of the threshold
C32_Witness ==
    /\ ssd.policy_s.profiling_done
    /\ Len(seq.frames) > ssd.policy_s.warmup + 1
    /\ \A i \in (ssd.policy_s.warmup + 1) .. Len(seq.frames) :
            seq.frames[i] * EntrySize > ssd.policy_s.threshold

\* C33: the KVPack-D threshold never decreases over any sequence of updates:
\* a re-evaluation whose popular frame count gives a value below the current
\* threshold leaves the threshold unchanged, and once initialized the policy
\* stays initialized.
C33_ThresholdMonotone ==
    [][/\ ssd'.policy_d.threshold >= ssd.policy_d.threshold
       /\ seq'.lower => ssd'.policy_d.threshold = ssd.policy_d.threshold
       /\ ssd.policy_d.initialized => ssd'.policy_d.initialized]_vars

\* the last put made the initialized policy re-evaluate, with a popular frame
\* count that gives less than the threshold, and the counters were reset
C33_Witness ==
    /\ seq.lower
    /\ ssd.policy_d.initialized
    /\ ssd.policy_d.frame_counts = <<>>
    /\ ssd.policy_d.threshold > EntrySize

\* C34: on the same stream of puts, KVPack-D and KVPack-S with the same
\* entry_size and warmup W give the same should_inline answer on each of the
\* first W puts and hold the same threshold right after the W-th update.
C34_SameAsStaticUntilWarmup ==
    [][/\ Len(seq'.frames) <= ssd.policy_s.warmup => seq'.inline_s = seq'.inline_d
       /\ Len(seq'.frames) = ssd.policy_s.warmup =>
            ssd'.policy_d.threshold = ssd'.policy_s.threshold]_vars

\* the last put was the W-th of a warmup of more than one put, both policies
\* answered it with inline, and the threshold is above one frame
C34_Witness ==
    /\ Len(seq.frames) = ssd.policy_s.warmup
    /\ ssd.policy_s.warmup > 1
    /\ seq.inline_s /\ seq.inline_d
    /\ ssd.policy_d.threshold > EntrySize

\* flash writes of the last step that were neither a GC copy nor the data
\* page of an eviction-conversion
OwnWrites ==
    (ssd'.m.flash_writes - ssd.m.flash_writes)
        - (ssd'.m.gc_pages_copied - ssd.m.gc_pages_copied)
        - (ssd'.m.inline_to_regular - ssd.m.inline_to_regular)

\* the translation pages whose entries the last step changed
ModifiedTps == {t \in TpIds : ssd'.pages[t].entries # ssd.pages[t].entries}

\* C35: a put that returns and stores its key is charged, GC copies and
\* eviction-conversion aside, exactly 1 flash write when the key is stored
\* inline and exactly 2 when it is stored as a regular entry; and when no
\* collection round ran in the put, the only translation page whose entries
\* changed is the one that holds the key, the page that write is charged for.
C35_WritesChargedPerPut ==
    [][seq'.kind = "put" /\ find_entry(ssd', seq'.key).entry # NoEntry =>
          /\ OwnWrites = IF find_entry(ssd', seq'.key).entry.is_inline THEN 1 ELSE 2
          /\ ssd'.gc_log = <<>> => ModifiedTps \subseteq {find_entry(ssd', seq'.key).tp}]_vars

\* C36: every entry stored in the GMD lies in the translation page at some
\* probe index r < max_retry of its key_hash, with the pages at the probe
\* indices 0 .. r-1 all materialized; and find_entry(k) returns an entry
\* exactly when some translation page holds one for k.
C36_StoredEntriesAreFound ==
    /\ \A t \in TpIds : \A i \in 1 .. Len(ssd.pages[t].entries) :
          \E r \in 0 .. (MaxRetry - 1) :
              /\ get_tp_id(ssd.pages[t].entries[i].key_hash, r) = t
              /\ \A q \in 0 .. (r - 1) :
                    ssd.pages[get_tp_id(ssd.pages[t].entries[i].key_hash, q)].present
    /\ \A k \in Keys :
          find_entry(ssd, k).entry # NoEntry
              <=> \E t \in TpIds : tp_find(ssd.pages[t], k) # NoEntry

\* a key is stored only in the page of its second probe slot, and found there
C36_Witness ==
    \E k \in Keys :
        /\ get_tp_id(k, 0) # get_tp_id(k, 1)
        /\ tp_find(ssd.pages[get_tp_id(k, 0)], k) = NoEntry
        /\ find_entry(ssd, k).tp = get_tp_id(k, 1)

\* the entries stored across all translation pages that are inline (or not)
StoredEntries(inline) ==
    {<<t, i>> \in TpIds \X (1 .. FramesPerTp) :
        i <= Len(ssd.pages[t].entries) /\ ssd.pages[t].entries[i].is_inline = inline}

\* C37: after any sequence of put/get/delete, metrics.inline_entries is the
\* number of inline entries stored across all translation pages and
\* metrics.regular_entries the number of regular entries stored.
C37_EntryCountersMatchStore ==
    /\ ssd.m.inline_entries = Cardinality(StoredEntries(TRUE))
    /\ ssd.m.regular_entries = Cardinality(StoredEntries(FALSE))

\* C38: every page of type data in Flash's valid set is the data_page_id of
\* some regular entry stored in the GMD.
C38_NoLeakedDataPage ==
    \A p \in ssd.valid :
        ssd.page_types[p] = "data" =>
            \E t \in TpIds : \E i \in 1 .. Len(ssd.pages[t].entries) :
                /\ ~ssd.pages[t].entries[i].is_inline
                /\ ssd.pages[t].entries[i].data_page_id = p

\* C39: CMT.insert(k, e) with a regular entry e for a key k that is already
\* cached replaces k's entry and removes no other key, also when the cache is
\* at capacity: the set of cached keys and the cache size are the same before
\* and after.
C39_ReinsertKeepsCachedKeys ==
    [][seq'.kind = "insert" /\ ~seq'.entry.is_inline
                            /\ IndexOf(ssd.cache, seq'.key) # 0 =>
        /\ {ssd'.cache[i].key_hash : i \in 1 .. Len(ssd'.cache)}
              = {ssd.cache[i].key_hash : i \in 1 .. Len(ssd.cache)}
        /\ Len(ssd'.cache) = Len(ssd.cache)
        /\ \E i \in 1 .. Len(ssd'.cache) : ssd'.cache[i] = seq'.entry]_vars

\* C40: a get changes only the metrics, the CMT and the policy's feedback
\* state: the translation pages and their entries, the set of materialized
\* pages, and Flash's occupied set, valid set, page types and allocation
\* cursor are the same after it; the cache gains at most the entry the GMD
\* holds for the key.
C40_GetLeavesStoreAlone ==
    [][ssd'.m.total_gets # ssd.m.total_gets =>
        /\ ssd'.pages = ssd.pages
        /\ ssd'.order = ssd.order
        /\ ssd'.occupied = ssd.occupied
        /\ ssd'.valid = ssd.valid
        /\ ssd'.page_types = ssd.page_types
        /\ ssd'.next_page = ssd.next_page
        /\ ssd'.read_capacity = ssd.read_capacity
        /\ ssd'.has_feedback = ssd.has_feedback
        /\ \E k \in Keys :
              {ssd'.cache[i] : i \in 1 .. Len(ssd'.cache)}
                  \subseteq {ssd.cache[i] : i \in 1 .. Len(ssd.cache)}
                                \cup {find_entry(ssd, k).entry}]_vars

\* gets have run on a device with a translation page still unmaterialized:
\* one found nothing, one missed the cache and read a regular entry (which the
\* cache now holds), and feedback was sent
C40_Witness ==
    /\ \E t \in TpIds : ~ssd.pages[t].present
    /\ ssd.m.reads_by_flash_count[0] > 0
    /\ ssd.m.reads_by_flash_count[2] > 0
    /\ ssd.feedback_count > 0
    /\ ssd.cache # <<>>

=============================================================================
